---- MODULE Spec2Model ----
(***************************************************************************)
(* Model of the retriever agent microservice (agents/retrieval_agent.py):  *)
(* the module-level RetrieverAgent instance, its in-memory FAISS vector    *)
(* store, the index persisted at vector_store_path, and the two endpoints  *)
(* /index_data and /retrieve_chunks.                                       *)
(***************************************************************************)
EXTENDS Integers, Sequences, FiniteSets, TLC

\* ---------------------------------------------------------------- bounds
MaxDocs == 2      \* longest documents / metadata list of one request
MaxIndex == 3     \* largest number of entries the in-memory index may reach
MaxK == 5         \* largest k of one retrieve request

\* ------------------------------------------------------------- constants
\* RetrieveRequest.k default
DefaultK == 5
\* status of a handler that returns normally
StatusOK == 200
\* status of `raise HTTPException(status_code=404, detail="No analytical insights could be generated.")`
NoInsightsStatus == 404

\* ------------------------------------------------------------ data model
Placeholder == "initial document for empty index"
Contents == {"a"}
EmptyMeta == {}
Metas == {EmptyMeta, {<<"symbol", "TSM">>}}
Queries == {"a", "b"}

SeqsUpTo(S, n) == UNION {[1..m -> S] : m \in 0..n}

Document(content, meta) == [page_content |-> content, metadata |-> meta]

\* metadata: Optional[List[Dict]]; given = FALSE is None
NoMetadata == [given |-> FALSE, items |-> <<>>]
MetadataArgs == {NoMetadata} \cup {[given |-> TRUE, items |-> ms] : ms \in SeqsUpTo(Metas, MaxDocs)}

\* self.vectorstore: None, or a FAISS object holding a list of documents
NoStore == [present |-> FALSE, docs |-> <<>>]
FromDocuments(docs) == [present |-> TRUE, docs |-> docs]

\* the artifact at vector_store_path
MissingPath == [state |-> "missing", docs |-> <<>>]
CorruptPath == [state |-> "corrupt", docs |-> <<>>]

PathExists(d) == d.state # "missing"

SaveLocal_NoMetadata(vs) ==
  [state |-> "index",
   docs |-> [i \in DOMAIN vs.docs |-> [page_content |-> vs.docs[i].page_content,
                                        metadata |-> {}]]]

\* FAISS.save_local: the whole index is written to the path
SaveLocal(vs) == [state |-> "index", docs |-> vs.docs]

LoadLocal(d) == FromDocuments(d.docs)

\* load_local raises on an unreadable artifact, or on a readable one that the
\* running library version rejects (compatible = FALSE)
LoadRaises(d, compatible) == d.state # "index" \/ ~compatible

\* what a save that raised leaves at the path: the previous artifact, or a
\* partially written one
FailedSave(d, partial) == IF partial THEN CorruptPath ELSE d

PlaceholderDocs_Empty == <<>>

\* [Document(page_content="initial document for empty index")]
PlaceholderDocs == <<Document(Placeholder, EmptyMeta)>>

\* ------------------------------------------------------------ embeddings
Embed(text) ==
  CASE text = "a" -> 1
    [] text = "b" -> 3
    [] OTHER -> 9

Abs(x) == IF x < 0 THEN 0 - x ELSE x

Distance(q, content) == Abs(Embed(q) - Embed(content))

\* index of the nearest entry among the positions in cand (first on a tie)
Nearest(docs, q, cand) ==
  CHOOSE i \in cand : \A j \in cand :
     \/ Distance(q, docs[i].page_content) < Distance(q, docs[j].page_content)
     \/ /\ Distance(q, docs[i].page_content) = Distance(q, docs[j].page_content)
        /\ i <= j

RECURSIVE Search(_, _, _, _)
Search(docs, q, k, cand) ==
  IF k <= 0 \/ cand = {} THEN <<>>
  ELSE LET i == Nearest(docs, q, cand)
       IN <<docs[i]>> \o Search(docs, q, k - 1, cand \ {i})

SimilaritySearch_IgnoresK(vs, q, k) == Search(vs.docs, q, Len(vs.docs), DOMAIN vs.docs)

\* retriever.invoke(query) with search_kwargs k
SimilaritySearch(vs, q, k) == Search(vs.docs, q, k, DOMAIN vs.docs)

PageContents(docs) == [i \in DOMAIN docs |-> docs[i].page_content]

\* ----------------------------------------------------------- environment
\* what the collaborators of one operation do: the embedding provider answers
\* or raises; save_local succeeds, raises leaving the path as it was, or raises
\* leaving a partial artifact
Environments == {"ok", "embedding_down", "save_fails", "save_fails_partial"}
EmbedOk(env) == env # "embedding_down"
SaveOk(env) == env \notin {"save_fails", "save_fails_partial"}
Partial(env) == env = "save_fails_partial"

\* ----------------------------------------------------------------- state
VARIABLES
  instance,     \* retriever_agent_instance: "agent" or "None"
  vectorstore,  \* retriever_agent_instance.vectorstore
  disk,         \* the artifact at vector_store_path
  initError,    \* the exception that made the module-level construction fail
  addFailed,    \* an index_documents call of this process has raised
  call,         \* the last operation: its inputs, what it did, its outcome
  language_agent_instance,  \* orchestrator: "unset" (module not imported), "agent", "None"
  brief,        \* orchestrator: the last generate_market_brief request
  workers,      \* worker processes serving the retriever app on one path
  stateless     \* the last call of a stateless operation: its input and its outcome

vars == <<instance, vectorstore, disk, initError, addFailed, call,
          language_agent_instance, brief, workers, stateless>>

\* what the retriever actions leave alone
othersVars == <<language_agent_instance, brief, workers, stateless>>

NoCall ==
  [op |-> "none", documents |-> <<>>, metadata |-> NoMetadata, query |-> "",
   k |-> 0, cause |-> "none", raised |-> "none", status |-> StatusOK,
   indexed_count |-> 0, chunks |-> <<>>, saved |-> FALSE, loaded |-> FALSE,
   pathFound |-> FALSE, hadFailedAdd |-> FALSE, pathDocs |-> 0]

\* AnalyticalInsights: an Optional field is a sequence of length 0 or 1
NoInsights ==
  [portfolio_allocation |-> <<>>, earnings_summaries |-> <<>>, market_sentiment |-> <<>>]

\* no generate_market_brief request has been served
NoBrief ==
  [op |-> "none", query |-> "", dataSource |-> "uncalled", steps |-> <<>>,
   answers |-> <<>>, status |-> StatusOK, detail |-> "",
   raw |-> [stocks |-> <<>>, earnings_surprises |-> <<>>], formatted |-> <<>>,
   remoteStatus |-> 0, chunks |-> <<>>, insights |-> NoInsights, context |-> <<>>,
   prompt |-> <<>>, market_brief_text |-> "", fields |-> {}]

\* no worker processes besides the one of `instance`
NoWorkers == <<>>

\* no stateless operation has been called
NoStateless ==
  [op |-> "none", raw |-> [stocks |-> <<>>, earnings_surprises |-> <<>>],
   today |-> 0, yesterday |-> 0, status |-> StatusOK, insights |-> NoInsights,
   raised |-> "none", documents |-> <<>>]

\* ------------------------------------------------------------ initialize
\* the two identical create branches of _load_or_create_vector_store:
\* FAISS.from_documents on the dummy document, then save_local
Bootstrap_NoSave(d, embedOk, saveOk, partial) ==
  IF ~embedOk
  THEN [vectorstore |-> NoStore, disk |-> d, cause |-> "embedding", saved |-> FALSE]
  ELSE [vectorstore |-> FromDocuments(PlaceholderDocs), disk |-> d,
        cause |-> "none", saved |-> FALSE]

Bootstrap(d, embedOk, saveOk, partial) ==
  IF ~embedOk
  THEN [vectorstore |-> NoStore, disk |-> d, cause |-> "embedding", saved |-> FALSE]
  ELSE IF ~saveOk
  THEN [vectorstore |-> FromDocuments(PlaceholderDocs), disk |-> FailedSave(d, partial),
        cause |-> "save", saved |-> FALSE]
  ELSE [vectorstore |-> FromDocuments(PlaceholderDocs),
        disk |-> SaveLocal(FromDocuments(PlaceholderDocs)),
        cause |-> "none", saved |-> TRUE]

LoadOrCreate_SwallowsFailure(d, compatible, embedOk, saveOk, partial) ==
  IF PathExists(d) /\ ~LoadRaises(d, compatible)
  THEN [vectorstore |-> LoadLocal(d), disk |-> d, cause |-> "none",
        saved |-> FALSE, loaded |-> TRUE, pathFound |-> TRUE]
  ELSE LET r == Bootstrap(d, embedOk, saveOk, partial)
       IN [vectorstore |-> IF embedOk THEN r.vectorstore ELSE NoStore, disk |-> r.disk,
           cause |-> "none", saved |-> r.saved, loaded |-> FALSE,
           pathFound |-> PathExists(d)]

\* _load_or_create_vector_store: the store, the path and the exception (if any)
LoadOrCreate(d, compatible, embedOk, saveOk, partial) ==
  IF PathExists(d) /\ ~LoadRaises(d, compatible)
  THEN [vectorstore |-> LoadLocal(d), disk |-> d, cause |-> "none",
        saved |-> FALSE, loaded |-> TRUE, pathFound |-> TRUE]
  ELSE LET r == Bootstrap(d, embedOk, saveOk, partial)
       IN [vectorstore |-> r.vectorstore, disk |-> r.disk, cause |-> r.cause,
           saved |-> r.saved, loaded |-> FALSE, pathFound |-> PathExists(d)]

\* RetrieverAgent.__init__ under the module-level try/except
Construct(d, apiKey, compatible, embedOk, saveOk, partial) ==
  IF ~apiKey
  THEN [instance |-> "None", vectorstore |-> NoStore, disk |-> d,
        call |-> [NoCall EXCEPT !.op = "initialize", !.cause = "api_key",
                                !.raised = "ValueError"]]
  ELSE LET r == LoadOrCreate(d, compatible, embedOk, saveOk, partial)
       IN IF r.cause # "none"
          THEN [instance |-> "None", vectorstore |-> NoStore, disk |-> r.disk,
                call |-> [NoCall EXCEPT !.op = "initialize", !.cause = r.cause,
                                        !.raised = "Exception",
                                        !.pathFound = r.pathFound]]
          ELSE [instance |-> "agent", vectorstore |-> r.vectorstore, disk |-> r.disk,
                call |-> [NoCall EXCEPT !.op = "initialize", !.saved = r.saved,
                                        !.loaded = r.loaded,
                                        !.pathFound = r.pathFound]]

\* the retriever service after its module-level construction
RetrieverStarted ==
  \E d \in {MissingPath, CorruptPath}, apiKey \in BOOLEAN, env \in Environments :
    LET s == Construct(d, apiKey, TRUE, EmbedOk(env), SaveOk(env), Partial(env))
    IN /\ instance = s.instance
       /\ vectorstore = s.vectorstore
       /\ disk = s.disk
       /\ initError = s.call.cause
       /\ addFailed = FALSE
       /\ call = s.call

Init ==
  /\ RetrieverStarted
  /\ language_agent_instance = "unset"
  /\ brief = NoBrief
  /\ workers = NoWorkers
  /\ stateless = NoStateless

\* the process ends and a new one imports the module against the same path
Restart ==
  \E apiKey, compatible \in BOOLEAN, env \in Environments :
    LET s == Construct(disk, apiKey, compatible, EmbedOk(env), SaveOk(env), Partial(env))
    IN /\ instance' = s.instance
       /\ vectorstore' = s.vectorstore
       /\ disk' = s.disk
       /\ initError' = s.call.cause
       /\ addFailed' = FALSE
       /\ call' = [s.call EXCEPT !.op = "restart", !.hadFailedAdd = addFailed,
                                 !.pathDocs = Len(disk.docs)]
       /\ UNCHANGED othersVars

\* ------------------------------------------------------- index_documents
NoDocuments_Never(documents) == FALSE

\* `if not documents`
NoDocuments(documents) == Len(documents) = 0

LengthMismatch_Unchecked(documents, metadata) == FALSE

\* `if metadata and len(documents) != len(metadata)`
LengthMismatch(documents, metadata) ==
  /\ metadata.given
  /\ Len(metadata.items) > 0
  /\ Len(documents) # Len(metadata.items)

\* `metadata[i] if metadata and i < len(metadata) else {}`
DocMetadata(metadata, i) ==
  IF metadata.given /\ Len(metadata.items) > 0 /\ i <= Len(metadata.items)
  THEN metadata.items[i]
  ELSE EmptyMeta

DocsToAdd(documents, metadata) ==
  [i \in DOMAIN documents |-> Document(documents[i], DocMetadata(metadata, i))]

AddDocuments_Replaces(vs, docs) == [vs EXCEPT !.docs = docs]

\* FAISS.add_documents, once the embeddings have been obtained
AddDocuments(vs, docs) == [vs EXCEPT !.docs = vs.docs \o docs]

\* the status code and detail class of the HTTPException raised in the except
\* branch of index_documents
IndexingFailure == 500

\* index_documents: new store, new path content, exception, return value
IndexDocuments(vs, d, documents, metadata, embedOk, saveOk, partial) ==
  LET base == [vectorstore |-> vs, disk |-> d, raised |-> "none", cause |-> "none",
               status |-> StatusOK, indexed_count |-> 0, saved |-> FALSE]
  IN IF NoDocuments(documents) THEN base
     ELSE IF LengthMismatch(documents, metadata)
     THEN [base EXCEPT !.raised = "ValueError", !.cause = "mismatch"]
     ELSE LET docs == DocsToAdd(documents, metadata)
              added == IF vs.present THEN AddDocuments(vs, docs) ELSE FromDocuments(docs)
          IN IF ~embedOk
             THEN [base EXCEPT !.raised = "HTTPException", !.cause = "embedding",
                               !.status = IndexingFailure]
             ELSE IF ~saveOk
             THEN [base EXCEPT !.vectorstore = added, !.disk = FailedSave(d, partial),
                               !.raised = "HTTPException", !.cause = "save",
                               !.status = IndexingFailure]
             ELSE [base EXCEPT !.vectorstore = added, !.disk = SaveLocal(added),
                               !.indexed_count = Len(docs), !.saved = TRUE]

\* status of the endpoint's `except Exception` branch
UnexpectedError == 500

\* status of the endpoints' `retriever_agent_instance is None` branch
NotInitialized == 500

\* index_data_endpoint on a retriever process whose state is rs: the state
\* it leaves and the response it gives
IndexDataEndpoint(rs, documents, metadata, env) ==
  IF rs.instance = "None"
  THEN [rs EXCEPT !.call = [NoCall EXCEPT !.op = "index_data", !.documents = documents,
                                          !.metadata = metadata,
                                          !.cause = "uninitialized",
                                          !.raised = "HTTPException",
                                          !.status = NotInitialized]]
  ELSE LET r == IndexDocuments(rs.vectorstore, rs.disk, documents, metadata,
                               EmbedOk(env), SaveOk(env), Partial(env))
       IN [rs EXCEPT
             !.vectorstore = r.vectorstore,
             !.disk = r.disk,
             !.addFailed = (rs.addFailed \/ r.raised # "none"),
             !.call = [NoCall EXCEPT !.op = "index_data", !.documents = documents,
                         !.metadata = metadata, !.cause = r.cause,
                         !.raised = r.raised,
                         !.status = IF r.raised = "ValueError" THEN UnexpectedError
                                    ELSE r.status,
                         !.indexed_count = r.indexed_count, !.saved = r.saved]]

\* the state of the retriever process
Retriever ==
  [instance |-> instance, vectorstore |-> vectorstore, disk |-> disk,
   addFailed |-> addFailed, call |-> call]

SetRetriever(rs) ==
  /\ vectorstore' = rs.vectorstore
  /\ disk' = rs.disk
  /\ addFailed' = rs.addFailed
  /\ call' = rs.call
  /\ UNCHANGED <<instance, initError>>

\* POST /index_data
IndexData ==
  \E documents \in SeqsUpTo(Contents, MaxDocs), metadata \in MetadataArgs,
     env \in Environments :
    /\ Len(vectorstore.docs) + Len(documents) <= MaxIndex
    /\ SetRetriever(IndexDataEndpoint(Retriever, documents, metadata, env))
    /\ UNCHANGED othersVars

\* ------------------------------------------------- retrieve_top_k_chunks
\* status of the HTTPExceptions raised by retrieve_top_k_chunks
RetrievalFailure == 500

RetrieveTopKChunks(vs, query, k, embedOk) ==
  LET base == [raised |-> "none", cause |-> "none", status |-> StatusOK, chunks |-> <<>>]
  IN IF ~vs.present
     THEN [base EXCEPT !.raised = "HTTPException", !.cause = "no_store",
                       !.status = RetrievalFailure]
     ELSE IF ~embedOk
     THEN [base EXCEPT !.raised = "HTTPException", !.cause = "embedding",
                       !.status = RetrievalFailure]
     ELSE [base EXCEPT !.chunks = PageContents(SimilaritySearch(vs, query, k))]

\* retrieve_chunks_endpoint on a retriever process whose state is rs
RetrieveChunksEndpoint(rs, query, k, embedOk) ==
  IF rs.instance = "None"
  THEN [rs EXCEPT !.call = [NoCall EXCEPT !.op = "retrieve_chunks", !.query = query,
                                          !.k = k, !.cause = "uninitialized",
                                          !.raised = "HTTPException",
                                          !.status = NotInitialized]]
  ELSE LET r == RetrieveTopKChunks(rs.vectorstore, query, k, embedOk)
       IN [rs EXCEPT !.call = [NoCall EXCEPT !.op = "retrieve_chunks", !.query = query,
                                             !.k = k, !.cause = r.cause,
                                             !.raised = r.raised, !.status = r.status,
                                             !.chunks = r.chunks]]

\* POST /retrieve_chunks
RetrieveChunks ==
  \E query \in Queries, k \in 1..MaxK, embedOk \in BOOLEAN :
    /\ SetRetriever(RetrieveChunksEndpoint(Retriever, query, k, embedOk))
    /\ UNCHANGED othersVars

\* ------------------------------------------------------------------ spec
Next == Restart \/ IndexData \/ RetrieveChunks

Spec == Init /\ [][Next]_vars

TypeOK ==
  /\ instance \in {"agent", "None"}
  /\ vectorstore.present \in BOOLEAN
  /\ Len(vectorstore.docs) <= MaxIndex
  /\ disk.state \in {"missing", "corrupt", "index"}
  /\ initError \in {"none", "api_key", "embedding", "save"}
  /\ addFailed \in BOOLEAN
  /\ stateless.op \in {"none", "analyze_market_data", "format_market_data_for_retrieval"}
  /\ stateless.status \in {StatusOK, NoInsightsStatus}
  /\ stateless.raised \in {"none", "TypeError"}


\* ========================================================== orchestrator
\* ------------------------------------------------------- the data source
Symbols == {"TSM", "005930.KS"}

CompanyName(symbol) ==
  IF symbol = "TSM" THEN "Taiwan Semiconductor Manufacturing Company"
  ELSE "Samsung Electronics Co., Ltd."

\* the earnings surprise the data source reports for a company; the API agent
\* lists a company only when it could compute the surprise
SurprisePercent(symbol) == IF symbol = "TSM" THEN 4 ELSE 0 - 2

\* earnings per share, in hundredths: the estimate is 1.0, the reported figure
\* the one that gives the company's surprise
EstimatedEps == 100
ActualEps(symbol) == EstimatedEps + SurprisePercent(symbol)

\* Optional[float]: null = TRUE is None
Some(v) == [null |-> FALSE, value |-> v]

StockRecs ==
  {[symbol |-> "TSM", name |-> CompanyName("TSM"), date |-> "2024-06-03", price |-> 100]}

EarningsRecs ==
  {[symbol |-> sym, name |-> CompanyName(sym), date |-> "2024-06-03",
    actual_eps |-> Some(ActualEps(sym)), estimated_eps |-> Some(EstimatedEps),
    surprise_percent |-> Some(SurprisePercent(sym))] : sym \in Symbols}

\* the data source reports each company at most once
OncePerSymbol(recs) ==
  \A i, j \in DOMAIN recs : i # j => recs[i].symbol # recs[j].symbol

RawDatas ==
  {[stocks |-> ss, earnings_surprises |-> es] :
     ss \in {x \in SeqsUpTo(StockRecs, Cardinality(StockRecs)) : OncePerSymbol(x)},
     es \in {x \in SeqsUpTo(EarningsRecs, Cardinality(Symbols)) : OncePerSymbol(x)}}

NoData == [stocks |-> <<>>, earnings_surprises |-> <<>>]

\* what a collaborator does with a request: it answers 200, refuses the
\* connection, or answers with an error status
DataSourceAnswers == {"ok", "refused", "http_500"}
AnalysisAnswers == {"ok", "refused", "http_404", "http_422"}

\* ------------------------------------------------------------ preprocess
StockContent(stock) ==
  IF stock.symbol = "TSM" /\ stock.price = 100
  THEN "Taiwan Semiconductor Manufacturing Company (TSM) closed at $100.00 on 2024-06-03."
  ELSE "stock document"

\* `"beat" if earnings.get('surprise_percent', 0) >= 0 else "missed"`
FormatSurpriseType(sp) == IF sp.value >= 0 THEN "beat" ELSE "missed"

EarningsContent(e) ==
  CASE e.symbol = "TSM" /\ e.name = CompanyName("TSM")
         /\ e.actual_eps = Some(104) /\ e.estimated_eps = Some(100)
         /\ FormatSurpriseType(e.surprise_percent) = "beat"
         /\ Abs(e.surprise_percent.value) = 4
       -> "Taiwan Semiconductor Manufacturing Company (TSM) reported earnings on 2024-06-03, with an actual EPS of 1.04 vs estimated 1.0. This was a beat of 4.00%."
    [] e.symbol = "005930.KS" /\ e.name = CompanyName("005930.KS")
         /\ e.actual_eps = Some(98) /\ e.estimated_eps = Some(100)
         /\ FormatSurpriseType(e.surprise_percent) = "missed"
         /\ Abs(e.surprise_percent.value) = 2
       -> "Samsung Electronics Co., Ltd. (005930.KS) reported earnings on 2024-06-03, with an actual EPS of 0.98 vs estimated 1.0. This was a missed of 2.00%."
    [] e.actual_eps.null /\ e.estimated_eps.null
       -> "earnings document with an actual EPS of None vs estimated None"
    [] OTHER -> "earnings document"

StockDocument(stock) ==
  [content |-> StockContent(stock),
   metadata |-> {<<"type", "stock_price">>, <<"symbol", stock.symbol>>}]

EarningsDocument(e) ==
  [content |-> EarningsContent(e),
   metadata |-> {<<"type", "earnings_surprise">>, <<"symbol", e.symbol>>}]

FormatMarketData_EarningsFirst(raw) ==
  [raised |-> "none",
   documents |->
     [i \in DOMAIN raw.earnings_surprises |-> EarningsDocument(raw.earnings_surprises[i])]
     \o [i \in DOMAIN raw.stocks |-> StockDocument(raw.stocks[i])]]

\* format_market_data_for_retrieval: `None >= 0` raises TypeError for an
\* earnings record whose surprise_percent is null
FormatMarketData(raw) ==
  IF \E i \in DOMAIN raw.earnings_surprises : raw.earnings_surprises[i].surprise_percent.null
  THEN [raised |-> "TypeError", documents |-> <<>>]
  ELSE [raised |-> "none",
        documents |->
          [i \in DOMAIN raw.stocks |-> StockDocument(raw.stocks[i])] \o
          [i \in DOMAIN raw.earnings_surprises |->
             EarningsDocument(raw.earnings_surprises[i])]]

\* ------------------------------------------------------- analysis agent
AumToday == 22
AumYesterday == 18

ReasonKeywords(symbol) ==
  IF symbol = "TSM" THEN "strong AI accelerator demand"
  ELSE "weaker memory chip and consumer electronics sales"

EarningsSummary_ZeroIsMiss(e) ==
  [company_name |-> e.name, symbol |-> e.symbol,
   surprise_type |-> IF e.surprise_percent.value > 0 THEN "beat" ELSE "miss",
   percentage |-> Abs(e.surprise_percent.value),
   reason_keywords |-> ReasonKeywords(e.symbol)]

EarningsSummary(e) ==
  [company_name |-> e.name, symbol |-> e.symbol,
   surprise_type |-> IF e.surprise_percent.value >= 0 THEN "beat" ELSE "miss",
   percentage |-> Abs(e.surprise_percent.value),
   reason_keywords |-> ReasonKeywords(e.symbol)]

EarningsSummaries_KeepsNull(es) ==
  [k \in DOMAIN es |-> EarningsSummary(es[k])]

\* the loop over raw_data.earnings_surprises: a summary is appended for a
\* record only `if earning.surprise_percent is not None`
EarningsSummaries(es) ==
  LET HasSurprise(e) == ~e.surprise_percent.null
      kept == SelectSeq(es, HasSurprise)
  IN  [k \in DOMAIN kept |-> EarningsSummary(kept[k])]

\* The allocation percentages are floats with decimals: they are counted in
\* thousandths of a percentage point, so that rounding to two decimals is a
\* rounding to a multiple of 10.
Pct(points) == points * 1000

\* round(x, 2): the nearest multiple of 10, an exact tie going to the even
\* hundredth
Round2(x) ==
  LET r == x % 10
      below == x - r
  IN  IF r < 5 THEN below
      ELSE IF r > 5 THEN below + 10
      ELSE IF (below \div 10) % 2 = 0 THEN below ELSE below + 10

ChangePoints_Unrounded(current_pct, previous_pct) == current_pct - previous_pct

\* change = round(current_pct - previous_pct, 2)
ChangePoints(current_pct, previous_pct) == Round2(current_pct - previous_pct)

PortfolioAllocationInsight(current_pct, previous_pct) ==
  [sector |-> "Asia tech", current_percentage |-> current_pct,
   previous_percentage |-> previous_pct,
   change_points |-> ChangePoints(current_pct, previous_pct)]

MarketSentimentInsight ==
  [sentiment |-> "neutral", tilt |-> "cautionary tilt",
   reason |-> "rising global bond yields impacting growth stock valuations"]


\* analyze_market_data_endpoint: the allocation and sentiment insights are
\* always objects, which are truthy, whatever the request holds
AnalyzeMarketDataEndpoint(raw, today, yesterday) ==
  LET portfolio_allocation_insight == <<PortfolioAllocationInsight(today, yesterday)>>
      earnings_summaries == EarningsSummaries(raw.earnings_surprises)
      market_sentiment_insight == <<MarketSentimentInsight>>
  IN  IF /\ portfolio_allocation_insight = <<>>
         /\ earnings_summaries = <<>>
         /\ market_sentiment_insight = <<>>
      THEN [status |-> NoInsightsStatus, insights |-> NoInsights]
      ELSE [status |-> StatusOK,
            insights |-> [portfolio_allocation |-> portfolio_allocation_insight,
                          earnings_summaries |-> earnings_summaries,
                          market_sentiment |-> market_sentiment_insight]]

\* the insights answered to the orchestrator's payload {"raw_data": raw}, which
\* leaves the AUM percentages at their defaults
AnalyzeMarketData(raw) ==
  AnalyzeMarketDataEndpoint(raw, Pct(AumToday), Pct(AumYesterday)).insights

\* ------------------------------------------------------ context assembly
AllocationSentence(alloc) ==
  IF alloc.current_percentage = Pct(22) /\ alloc.change_points = Pct(4)
     /\ alloc.previous_percentage = Pct(18)
  THEN "Portfolio: Asia tech allocation is 22.0% of AUM, up 4.0% from 18.0% yesterday."
  ELSE "Portfolio sentence"

EarningsSentence(es) ==
  CASE es.symbol = "TSM" /\ es.surprise_type = "beat" /\ es.percentage = 4
       -> "Earnings: Taiwan Semiconductor Manufacturing Company (TSM) beat estimates by 4.0%. Reason: strong AI accelerator demand."
    [] es.symbol = "005930.KS" /\ es.surprise_type = "miss" /\ es.percentage = 2
       -> "Earnings: Samsung Electronics Co., Ltd. (005930.KS) miss estimates by 2.0%. Reason: weaker memory chip and consumer electronics sales."
    [] OTHER -> "Earnings sentence"

SentimentSentence(sentiment) ==
  IF sentiment.sentiment = "neutral" /\ sentiment.tilt = "cautionary tilt"
  THEN "Sentiment: Regional sentiment is neutral with a cautionary tilt due to rising global bond yields impacting growth stock valuations."
  ELSE "Sentiment sentence"

FinalContext_SentimentFirst(chunks, insights) ==
  chunks
  \o [i \in DOMAIN insights.market_sentiment |->
        SentimentSentence(insights.market_sentiment[i])]
  \o [i \in DOMAIN insights.portfolio_allocation |->
        AllocationSentence(insights.portfolio_allocation[i])]
  \o [i \in DOMAIN insights.earnings_summaries |->
        EarningsSentence(insights.earnings_summaries[i])]

\* final_context_for_llm: the chunks, then the appended insight sentences
FinalContext(chunks, insights) ==
  chunks
  \o [i \in DOMAIN insights.portfolio_allocation |->
        AllocationSentence(insights.portfolio_allocation[i])]
  \o [i \in DOMAIN insights.earnings_summaries |->
        EarningsSentence(insights.earnings_summaries[i])]
  \o [i \in DOMAIN insights.market_sentiment |->
        SentimentSentence(insights.market_sentiment[i])]

\* ------------------------------------------------------- language agent
\* LLMEngine.generate_response: an exception of the model call is caught and
\* returned as text
GenerateResponse(llmOk) ==
  [raised |-> "none", text |-> IF llmOk THEN "market brief" ELSE "Error from LLM"]

\* `Context Document {i+1}:\n{doc}` for each context document, in order
ContextStr(context) == [i \in DOMAIN context |-> [number |-> i, doc |-> context[i]]]

\* LanguageAgent.synthesize_market_brief: returns what the engine returned;
\* its own except branch needs generate_response to raise, which it never does
SynthesizeMarketBrief(context, llmOk) ==
  LET response == GenerateResponse(llmOk)
  IN  [raised |-> "none", prompt |-> ContextStr(context),
       text |-> IF response.raised = "none" THEN response.text
                ELSE "Error synthesizing brief"]

\* ------------------------------------------- generate_market_brief_endpoint
StepOrder ==
  <<"FETCH_DATA", "FORMAT_DOCS", "INDEX_DOCS", "DERIVE_INSIGHTS", "RETRIEVE_CHUNKS",
    "SYNTHESIZE">>

TextQueries == {"TSMC earnings"}

\* k of the retrieve_chunks payload
RetrieveK == 5

LanguageAgentMissing == 500
ConnectFailure == 503
StepError == 500
UnhandledError == 500

\* response.raise_for_status()
RaiseForStatus_Never(status) == FALSE

RaiseForStatus(status) == status >= 400

\* requests.post(...); response.raise_for_status(): the exception raised
PostRaises(refused, status) ==
  IF refused \/ RaiseForStatus(status) THEN "RequestException" ELSE "none"

\* the collaborator named in a step's "Failed to connect to ..." detail
StepTarget(step) ==
  CASE step = "FETCH_DATA" -> "API Agent"
    [] step = "INDEX_DOCS" -> "Retriever Agent for indexing"
    [] step = "DERIVE_INSIGHTS" -> "Analysis Agent"
    [] step = "RETRIEVE_CHUNKS" -> "Retriever Agent for retrieval"

\* the activity named in a step's "Error ..." detail
StepLabel(step) ==
  CASE step = "FETCH_DATA" -> "fetching data from API Agent"
    [] step = "INDEX_DOCS" -> "indexing data via Retriever Agent"
    [] step = "DERIVE_INSIGHTS" -> "analyzing data via Analysis Agent"
    [] step = "RETRIEVE_CHUNKS" -> "retrieving chunks via Retriever Agent"

\* `except requests.exceptions.RequestException` / `except Exception`
StepFailure(step, raised) ==
  IF raised = "RequestException"
  THEN [status |-> ConnectFailure, detail |-> "Failed to connect to " \o StepTarget(step)]
  ELSE [status |-> StepError, detail |-> "Error " \o StepLabel(step)]

AnswerStatus(answer) ==
  CASE answer = "http_404" -> 404
    [] answer = "http_422" -> 422
    [] answer = "http_500" -> 500
    [] OTHER -> StatusOK

\* ------------------------------------------------------------ fetch_data
\* get_daily_market_data_from_api_agent(api_agent_base_url, symbols=None): a
\* call that does not pass the required base URL raises TypeError before any
\* request is made; otherwise requests.post / raise_for_status raise a
\* RequestException unless the data source answers 200
GetDailyMarketData(baseUrlPassed, source, raw) ==
  IF ~baseUrlPassed
  THEN [raised |-> "TypeError", answer |-> "uncalled", data |-> NoData]
  ELSE IF PostRaises(source = "refused", AnswerStatus(source)) # "none"
  THEN [raised |-> "RequestException", answer |-> source, data |-> NoData]
  ELSE [raised |-> "none", answer |-> "ok", data |-> raw]

\* the call of orchestrator/main.py line 58 passes no argument
BaseUrlPassed == FALSE

\* the step is entered and its collaborator's answer recorded
Enter(b, step, answer) ==
  [b EXCEPT !.steps = Append(@, step), !.answers = Append(@, answer),
            !.remoteStatus = AnswerStatus(answer)]

Abort(b, failure) == [b EXCEPT !.status = failure.status, !.detail = failure.detail]

\* the handler returns or raises: the request's record and the retriever's state
Respond(b, rs) ==
  /\ brief' = b
  /\ SetRetriever(rs)
  /\ UNCHANGED <<language_agent_instance, workers, stateless>>

\* Step 6: synthesize, and return {"market_brief_text": ...}
Synthesize(b, rs, chunks, insights) ==
  \E llmOk \in BOOLEAN :
    LET context == FinalContext(chunks, insights)
        out == SynthesizeMarketBrief(context, llmOk)
        b6 == [Enter(b, "SYNTHESIZE", IF llmOk THEN "ok" ELSE "llm_error")
                 EXCEPT !.context = context, !.prompt = out.prompt]
    IN  IF out.raised # "none"
        THEN Respond(Abort(b6, [status |-> StepError,
                                detail |-> "Error synthesizing brief with Language Agent"]), rs)
        ELSE Respond([b6 EXCEPT !.market_brief_text = out.text,
                                !.fields = {"market_brief_text"}], rs)

\* Step 5: POST /retrieve_chunks with the request's text_query and k = 5
RetrieveStep(b, rs, insights) ==
  \E up \in BOOLEAN, embedOk \in BOOLEAN :
    LET rs5 == IF up THEN RetrieveChunksEndpoint(rs, b.query, RetrieveK, embedOk) ELSE rs
        answer == IF ~up THEN "refused"
                  ELSE IF rs5.call.status = StatusOK THEN "ok" ELSE "http_500"
        b5 == Enter(b, "RETRIEVE_CHUNKS", answer)
        raised == PostRaises(~up, AnswerStatus(answer))
    IN  /\ ~up => embedOk
        /\ IF raised # "none"
           THEN Respond(Abort(b5, StepFailure("RETRIEVE_CHUNKS", raised)), rs5)
           ELSE Synthesize([b5 EXCEPT !.chunks = rs5.call.chunks], rs5,
                           rs5.call.chunks, insights)

\* Step 4: POST /analyze_market_data with {"raw_data": raw}
DeriveStep(b, rs, raw) ==
  \E answer \in AnalysisAnswers :
    LET b4 == Enter(b, "DERIVE_INSIGHTS", answer)
        raised == PostRaises(answer = "refused", AnswerStatus(answer))
        insights == AnalyzeMarketData(raw)
    IN  IF raised # "none"
        THEN Respond(Abort(b4, StepFailure("DERIVE_INSIGHTS", raised)), rs)
        ELSE RetrieveStep([b4 EXCEPT !.insights = insights], rs, insights)

\* Step 3: POST /index_data with the formatted documents and their metadata
IndexStep(b, rs, raw, formatted) ==
  \E up \in BOOLEAN, env \in Environments :
    LET documents == [i \in DOMAIN formatted |-> formatted[i].content]
        metadata == [given |-> TRUE,
                     items |-> [i \in DOMAIN formatted |-> formatted[i].metadata]]
        rs3 == IF up THEN IndexDataEndpoint(rs, documents, metadata, env) ELSE rs
        answer == IF ~up THEN "refused"
                  ELSE IF rs3.call.status = StatusOK THEN "ok" ELSE "http_500"
        b3 == Enter(b, "INDEX_DOCS", answer)
        raised == PostRaises(~up, AnswerStatus(answer))
    IN  /\ Len(rs.vectorstore.docs) + Len(formatted) <= MaxIndex
        /\ ~up => env = CHOOSE e \in Environments : TRUE
        /\ IF raised # "none"
           THEN Respond(Abort(b3, StepFailure("INDEX_DOCS", raised)), rs3)
           ELSE DeriveStep(b3, rs3, raw)

\* Step 2: format_market_data_for_retrieval, outside any try block
FormatStep(b, rs, raw) ==
  LET out == FormatMarketData(raw)
      b2 == Enter(b, "FORMAT_DOCS", IF out.raised = "none" THEN "ok" ELSE out.raised)
  IN  IF out.raised # "none"
      THEN Respond(Abort(b2, [status |-> UnhandledError,
                              detail |-> "Internal Server Error"]), rs)
      ELSE IndexStep([b2 EXCEPT !.formatted = out.documents], rs, raw, out.documents)

\* Step 1: get_daily_market_data_from_api_agent
FetchStep(b, rs, baseUrlPassed, raw) ==
  LET out == GetDailyMarketData(baseUrlPassed, b.dataSource, raw)
      b1 == Enter(b, "FETCH_DATA", out.answer)
  IN  IF out.raised # "none"
      THEN Respond(Abort(b1, StepFailure("FETCH_DATA", out.raised)), rs)
      ELSE FormatStep([b1 EXCEPT !.raw = out.data], rs, out.data)

\* POST /generate_market_brief; baseUrlPassed tells whether the fetch function
\* receives the data source's base URL
MarketBrief(baseUrlPassed) ==
  \E query \in TextQueries, source \in DataSourceAnswers :
    \E raw \in IF source = "ok" THEN RawDatas ELSE {NoData} :
      LET b0 == [NoBrief EXCEPT !.op = "generate_market_brief", !.query = query,
                                !.dataSource = source]
      IN  /\ language_agent_instance # "unset"
          /\ IF language_agent_instance = "None"
             THEN Respond(Abort(b0, [status |-> LanguageAgentMissing,
                                     detail |-> "Orchestrator: Language Agent not initialized."]),
                          Retriever)
             ELSE FetchStep(b0, Retriever, baseUrlPassed, raw)

\* the handler as orchestrator/main.py has it
GenerateMarketBrief == MarketBrief(BaseUrlPassed)

\* the handler with the fetch function given its base URL: what each later
\* step does with the data source's answers
GenerateMarketBriefFetching == MarketBrief(TRUE)

\* `language_agent_instance = LanguageAgent()` in try/except at import
InitOrchestrator ==
  /\ RetrieverStarted
  /\ language_agent_instance \in {"agent", "None"}
  /\ brief = NoBrief
  /\ workers = NoWorkers
  /\ stateless = NoStateless

NextOrchestrator == GenerateMarketBrief \/ IndexData \/ RetrieveChunks \/ Restart

SpecOrchestrator == InitOrchestrator /\ [][NextOrchestrator]_vars

NextPipeline == GenerateMarketBrief \/ GenerateMarketBriefFetching \/ Restart

SpecPipeline == InitOrchestrator /\ [][NextPipeline]_vars

\* ================================================= retriever processes
\* Two server processes of the retriever run against the same
\* vector_store_path. Inside one process index_data_endpoint is an `async def`
\* that calls index_documents without awaiting, so a process serves one
\* index_data request at a time; calls overlap only between processes.
Workers == {1, 2}

\* the documents of one /index_data request
WorkerDocuments == {<<c>> : c \in Queries}

\* save_local of one process: the path gets that process's whole index,
\* whatever another process wrote there
WorkerSave_Merges(d, vs) ==
  [state |-> "index",
   docs |-> d.docs \o
            SelectSeq(vs.docs, LAMBDA doc : \A i \in DOMAIN d.docs : d.docs[i] # doc)]

WorkerSave(d, vs) == SaveLocal(vs)

\* a process that has loaded the index found at the path and serves no request
IdleWorker(d) ==
  [vectorstore |-> LoadLocal(d), pc |-> "idle", documents |-> <<>>, added |-> <<>>,
   acked |-> {},
   status |-> 0, overlapped |-> FALSE, savedLast |-> FALSE]

\* index_documents up to and including add_documents: the request's documents
\* are in this process's in-memory index
BeginIndex(w) ==
  \E documents \in WorkerDocuments :
    /\ workers[w].pc = "idle"
    /\ Len(workers[w].vectorstore.docs) + Len(documents) <= MaxIndex
    /\ ~NoDocuments(documents)
    /\ ~LengthMismatch(documents, NoMetadata)
    /\ LET racing == \E v \in Workers : v # w /\ workers[v].pc # "idle"
       IN  workers' =
             [v \in Workers |->
                IF v = w
                THEN [workers[w] EXCEPT
                        !.vectorstore = AddDocuments(@, DocsToAdd(documents, NoMetadata)),
                        !.added = @ \o documents,
                        !.pc = "added", !.documents = documents, !.status = 0,
                        !.overlapped = racing]
                ELSE IF workers[v].pc # "idle"
                THEN [workers[v] EXCEPT !.overlapped = TRUE]
                ELSE workers[v]]
    /\ UNCHANGED <<instance, vectorstore, disk, initError, addFailed, call,
                   language_agent_instance, brief, stateless>>

\* self.vectorstore.save_local(self.vector_store_path)
SaveIndex(w) ==
  /\ workers[w].pc = "added"
  /\ disk' = WorkerSave(disk, workers[w].vectorstore)
  /\ workers' = [v \in Workers |->
                   IF v = w THEN [workers[w] EXCEPT !.pc = "saved", !.savedLast = TRUE]
                   ELSE [workers[v] EXCEPT !.savedLast = FALSE]]
  /\ UNCHANGED <<instance, vectorstore, initError, addFailed, call,
                 language_agent_instance, brief, stateless>>

\* return {"status": "success", "indexed_count": ...}
ReturnIndex(w) ==
  /\ workers[w].pc = "saved"
  /\ workers' = [workers EXCEPT
                   ![w] = [@ EXCEPT !.pc = "idle", !.status = StatusOK,
                                    !.acked = @ \cup {workers[w].documents[i] :
                                                        i \in DOMAIN workers[w].documents}]]
  /\ UNCHANGED <<instance, vectorstore, disk, initError, addFailed, call,
                 language_agent_instance, brief, stateless>>

\* both processes have started against a path holding a bootstrapped index
InitWorkers ==
  /\ instance = "agent"
  /\ disk = Bootstrap(MissingPath, TRUE, TRUE, FALSE).disk
  /\ vectorstore = LoadLocal(disk)
  /\ initError = "none"
  /\ addFailed = FALSE
  /\ call = NoCall
  /\ language_agent_instance = "unset"
  /\ brief = NoBrief
  /\ workers = [w \in Workers |-> IdleWorker(disk)]
  /\ stateless = NoStateless

NextWorkers == \E w \in Workers : BeginIndex(w) \/ SaveIndex(w) \/ ReturnIndex(w)

SpecWorkers == InitWorkers /\ [][NextWorkers]_vars

\* ================================================== stateless operations
\* The analysis endpoint and the formatting function keep no state: each is
\* applied once to an input drawn from the payloads their declared types admit.
MaxRecords == 2

\* Optional[float] None
Null == [null |-> TRUE, value |-> 0]

\* surprise_percent: Optional[float]
Surprises == {Null, Some(0 - 2), Some(0), Some(4)}

\* the name a record carries need not be the listed company name
RecordNames(symbol) == {CompanyName(symbol)} \cup (IF symbol = "TSM" THEN {"TSMC"} ELSE {})

\* actual_eps, estimated_eps: Optional[float]
EpsPairs(symbol) == {<<Null, Null>>, <<Some(ActualEps(symbol)), Some(EstimatedEps)>>}

\* EarningsDataInput / EarningsDataItem records
EarningsInputs ==
  UNION {{[symbol |-> sym, name |-> nm, date |-> "2024-06-03",
           actual_eps |-> eps[1], estimated_eps |-> eps[2], surprise_percent |-> sp] :
            nm \in RecordNames(sym), eps \in EpsPairs(sym), sp \in Surprises} :
         sym \in Symbols}

\* RawMarketData payloads
RawInputs ==
  {[stocks |-> ss, earnings_surprises |-> es] :
     ss \in SeqsUpTo(StockRecs, 1), es \in SeqsUpTo(EarningsInputs, MaxRecords)}

\* asia_tech_aum_today_percent, asia_tech_aum_yesterday_percent, in thousandths
AumValues == {0 - 5004, 22006, Pct(120)}
AumPairs ==
  (AumValues \X AumValues) \cup {<<0, 0>>, <<Pct(22), Pct(18)>>, <<Pct(20), Pct(21)>>}

\* POST /analyze_market_data
AnalyzeRequest ==
  /\ stateless.op = "none"
  /\ LET r == AnalyzeMarketDataEndpoint(stateless.raw, stateless.today, stateless.yesterday)
     IN  stateless' = [stateless EXCEPT !.op = "analyze_market_data",
                                        !.status = r.status, !.insights = r.insights]
  /\ UNCHANGED <<instance, vectorstore, disk, initError, addFailed, call,
                 language_agent_instance, brief, workers>>

\* format_market_data_for_retrieval(raw)
FormatRequest ==
  /\ stateless.op = "none"
  /\ LET out == FormatMarketData(stateless.raw)
     IN  stateless' = [stateless EXCEPT !.op = "format_market_data_for_retrieval",
                                        !.raised = out.raised,
                                        !.documents = out.documents]
  /\ UNCHANGED <<instance, vectorstore, disk, initError, addFailed, call,
                 language_agent_instance, brief, workers>>

\* an input is at hand and neither operation has been applied to it
InitStateless ==
  /\ instance = "agent"
  /\ disk = Bootstrap(MissingPath, TRUE, TRUE, FALSE).disk
  /\ vectorstore = LoadLocal(disk)
  /\ initError = "none"
  /\ addFailed = FALSE
  /\ call = NoCall
  /\ language_agent_instance = "unset"
  /\ brief = NoBrief
  /\ workers = NoWorkers
  /\ \E raw \in RawInputs, aum \in AumPairs :
       stateless = [NoStateless EXCEPT !.raw = raw, !.today = aum[1],
                                       !.yesterday = aum[2]]

NextStateless == AnalyzeRequest \/ FormatRequest

SpecStateless == InitStateless /\ [][NextStateless]_vars

\* ================================================================ claims
Initialized == instance = "agent"

InitOps == {"initialize", "restart"}

\* C1: in every reachable state an initialized store holds at least one entry,
\* and a retrieval that the embedding provider answered found at least one
\* document.
C1_NeverEmpty ==
  Initialized =>
    /\ vectorstore.present
    /\ Len(vectorstore.docs) >= 1
    /\ (call.op = "retrieve_chunks" /\ call.raised = "none" => Len(call.chunks) >= 1)

\* an initialized store that went through a failed and then a successful
\* addDocuments is queried
C1_Witness ==
  /\ Initialized
  /\ addFailed
  /\ Len(vectorstore.docs) >= 2
  /\ call.op = "retrieve_chunks"
  /\ Len(call.chunks) >= 1

\* C2: an initialization whose load did not succeed (path missing, or path
\* present and load raised) never fails because of the load; unless the
\* bootstrap itself raised, the store is ready, the in-memory index is exactly
\* the placeholder document with empty metadata, and that one-document index
\* is what the path holds.
C2_BootstrapOnLoadFailure ==
  call.op \in InitOps /\ ~call.loaded =>
    /\ call.cause \in {"none", "api_key", "embedding", "save"}
    /\ call.cause = "none" =>
         /\ Initialized
         /\ vectorstore.present
         /\ vectorstore.docs = <<[page_content |-> Placeholder, metadata |-> {}]>>
         /\ call.saved
         /\ disk = [state |-> "index",
                    docs |-> <<[page_content |-> Placeholder, metadata |-> {}]>>]

\* a restart found an artifact at the path, could not load it, and bootstrapped
C2_Witness ==
  /\ call.op = "restart"
  /\ call.pathFound
  /\ ~call.loaded
  /\ Initialized
  /\ Len(vectorstore.docs) = 1

\* C3 (as claimed): once the bootstrap of this process has failed, the instance
\* stays uninitialized, and every index_data and retrieve_chunks call is
\* refused with status 503 and leaves the store and the path alone.
C3_RefusedWith503 ==
  [][(initError \in {"embedding", "save"} /\ call'.op \in {"index_data", "retrieve_chunks"}
       => /\ instance' = "None"
          /\ call'.raised = "HTTPException"
          /\ call'.status = 503
          /\ vectorstore' = vectorstore
          /\ disk' = disk)]_vars

\* C4: index_documents with an empty documents list returns 0, saves nothing,
\* and leaves the in-memory index and the persisted index as they were (a
\* retrieval reads nothing but the in-memory index, so its answers stay too).
C4_EmptyIsNoOp ==
  [][(Initialized /\ call'.op = "index_data" /\ call'.documents = <<>>
       => /\ call'.raised = "none"
          /\ call'.indexed_count = 0
          /\ ~call'.saved
          /\ vectorstore' = vectorstore
          /\ disk' = disk)]_vars

\* an empty documents list (sent with a metadata list) reached a store that
\* already holds real documents
C4_Witness ==
  /\ Initialized
  /\ call.op = "index_data"
  /\ call.documents = <<>>
  /\ call.metadata.given
  /\ call.indexed_count = 0
  /\ Len(vectorstore.docs) >= 2

C6_AppendsExactlyN ==
  [][(Initialized /\ call'.op = "index_data" /\ call'.raised = "none"
       /\ Len(call'.documents) >= 1
       => LET n == Len(call'.documents)
              old == Len(vectorstore.docs)
              items == call'.metadata.items
          IN /\ call'.indexed_count = n
             /\ Len(vectorstore'.docs) = old + n
             /\ \A i \in 1..old : vectorstore'.docs[i] = vectorstore.docs[i]
             /\ \A i \in 1..n :
                  /\ vectorstore'.docs[old + i].page_content = call'.documents[i]
                  /\ vectorstore'.docs[old + i].metadata =
                       IF Len(items) = n THEN items[i] ELSE {})]_vars

\* two documents with their own metadata were added to a store that already
\* held a real document
C6_Witness ==
  /\ Initialized
  /\ call.op = "index_data"
  /\ call.raised = "none"
  /\ call.indexed_count = 2
  /\ Len(call.metadata.items) = 2
  /\ call.metadata.items[2] # {}
  /\ Len(vectorstore.docs) = 3
  /\ vectorstore.docs[3].metadata # {}

\* C7 (as claimed): whenever the store is initialized and at rest, the path
\* holds an index with exactly the documents of the in-memory index.
C7_DiskMatchesMemory ==
  Initialized => disk.state = "index" /\ disk.docs = vectorstore.docs

\* C8: on an initialized store of n entries, a retrieval with k >= 1 that the
\* embedding provider answered succeeds with exactly min(k, n) chunks, never
\* more than k; the only failure of a retrieval on an initialized store is the
\* embedding provider's; a placeholder-only store asked for DefaultK chunks
\* answers the placeholder alone.
C8_ReturnsMinKN ==
  Initialized /\ call.op = "retrieve_chunks" =>
    /\ call.raised # "none" => call.cause = "embedding"
    /\ call.raised = "none" =>
         /\ call.status = 200
         /\ Len(call.chunks) <= call.k
         /\ Len(call.chunks) = IF call.k < Len(vectorstore.docs)
                               THEN call.k ELSE Len(vectorstore.docs)
         /\ (Len(vectorstore.docs) = 1 /\ call.k = DefaultK
               => call.chunks = <<Placeholder>>)

\* a bootstrap-only store was asked for 5 chunks and answered the placeholder
C8_Witness ==
  /\ Initialized
  /\ call.op = "retrieve_chunks"
  /\ call.k = 5
  /\ Len(vectorstore.docs) = 1
  /\ call.chunks = <<Placeholder>>

\* more entries than requested: k = 2 on a store of three entries
C8_WitnessTruncated ==
  /\ Initialized
  /\ call.op = "retrieve_chunks"
  /\ call.k = 2
  /\ Len(vectorstore.docs) = 3
  /\ Len(call.chunks) = 2

\* C9: when every index_documents call of a process succeeded, a new process
\* that loads the path holds exactly the documents the old process held in
\* memory, content and metadata, in the same order.
C9_RestartRoundTrip ==
  [][(Initialized /\ ~addFailed /\ call'.op = "restart" /\ call'.loaded
       => /\ instance' = "agent"
          /\ vectorstore' = vectorstore)]_vars

\* a new process loaded an index holding a real document with metadata, after
\* a process in which no index_documents call had failed
C9_Witness ==
  /\ call.op = "restart"
  /\ call.loaded
  /\ ~call.hadFailedAdd
  /\ Initialized
  /\ Len(vectorstore.docs) >= 2
  /\ \E i \in DOMAIN vectorstore.docs : vectorstore.docs[i].metadata # {}

\* C10 (as claimed): at /index_data a length mismatch answers 400, an
\* embedding failure 503 and a failed save 500.
C10_DistinctErrorClasses ==
  call.op = "index_data" =>
    /\ call.cause = "mismatch" => call.status = 400
    /\ call.cause = "embedding" => call.status = 503
    /\ call.cause = "save" => call.status = 500

\* C11 (as claimed): when index_documents fails because the embedding call or
\* the save raised, the in-memory index holds exactly the documents it held
\* before the call.
C11_FailedAddKeepsMemory ==
  [][(Initialized /\ call'.op = "index_data" /\ call'.cause \in {"embedding", "save"}
       => vectorstore' = vectorstore)]_vars

C13_AllOkReachesDone ==
  ( /\ brief.op = "generate_market_brief"
    /\ language_agent_instance = "agent"
    /\ brief.dataSource = "ok"
    /\ \A i \in DOMAIN brief.answers : brief.answers[i] \in {"ok", "uncalled"} )
  => /\ brief.steps = StepOrder
     /\ brief.status = StatusOK
     /\ "market_brief_text" \in brief.fields

C15_FetchFailureIs503 ==
  ( /\ brief.op = "generate_market_brief"
    /\ language_agent_instance = "agent"
    /\ brief.dataSource # "ok" )
  => /\ brief.steps = <<"FETCH_DATA">>
     /\ brief.formatted = <<>>
     /\ brief.status = 503
     /\ brief.detail = "Failed to connect to API Agent"

C20_LastSaveWins ==
  \A w \in Workers :
    workers[w].savedLast /\ workers[w].pc \in {"saved", "idle"}
      => disk.docs = PlaceholderDocs \o DocsToAdd(workers[w].added, NoMetadata)

C20_Witness ==
  /\ \A w \in Workers :
       /\ workers[w].pc = "idle"
       /\ workers[w].status = StatusOK
       /\ workers[w].overlapped
  /\ \E w \in Workers : \E c \in workers[w].acked :
       \A i \in DOMAIN disk.docs : disk.docs[i].page_content # c

C27_BootstrapDiscardsPersisted ==
  [][( call'.op = "restart" /\ call'.pathFound /\ ~call'.loaded /\ call'.cause = "none"
       => /\ disk'.state = "index"
          /\ Len(disk'.docs) = 1
          /\ disk'.docs[1].page_content = Placeholder
          /\ vectorstore'.docs = disk'.docs
          /\ \A i \in DOMAIN disk.docs :
               disk.docs[i].page_content # Placeholder
               => \A j \in DOMAIN disk'.docs : disk'.docs[j] # disk.docs[i] )]_vars

\* a restart bootstrapped over a path that held the placeholder and at least
\* one indexed document
C27_Witness ==
  /\ call.op = "restart"
  /\ call.pathFound
  /\ ~call.loaded
  /\ call.cause = "none"
  /\ call.pathDocs >= 2
  /\ Len(disk.docs) = 1
  /\ Len(vectorstore.docs) = 1

\* C30: whenever the module-level instance exists its vector store is not
\* None, so no index_data call finds the store missing and no retrieve_chunks
\* call is answered 'Vector store not initialized'.
C30_StoreNeverNone ==
  /\ Initialized => vectorstore.present /\ Len(vectorstore.docs) >= 1
  /\ ~Initialized => ~vectorstore.present
  /\ call.cause # "no_store"

\* an existing instance has served an index_data and is asked to retrieve
C30_Witness ==
  /\ Initialized
  /\ call.op = "retrieve_chunks"
  /\ call.raised = "none"
  /\ Len(vectorstore.docs) >= 2

\* ------------------------------------------------- stateless operations

C23_NullSurpriseSkipped ==
  stateless.op = "analyze_market_data" =>
    LET es == stateless.raw.earnings_surprises
        summaries == stateless.insights.earnings_summaries
        withSurprise == {i \in DOMAIN es : ~es[i].surprise_percent.null}
        Position(i) == Cardinality({j \in withSurprise : j <= i})
    IN  /\ stateless.status = StatusOK
        /\ Len(summaries) = Cardinality(withSurprise)
        /\ \A i \in withSurprise :
             /\ Position(i) \in DOMAIN summaries
             /\ summaries[Position(i)].symbol = es[i].symbol
             /\ summaries[Position(i)].company_name = es[i].name

\* a null record ahead of a record with a surprise: one insight, for the second
C23_Witness ==
  /\ stateless.op = "analyze_market_data"
  /\ Len(stateless.raw.earnings_surprises) = 2
  /\ stateless.raw.earnings_surprises[1].surprise_percent.null
  /\ stateless.raw.earnings_surprises[1].symbol = "TSM"
  /\ ~stateless.raw.earnings_surprises[2].surprise_percent.null
  /\ stateless.raw.earnings_surprises[2].symbol = "005930.KS"
  /\ stateless.status = StatusOK
  /\ Len(stateless.insights.earnings_summaries) = 1
  /\ stateless.insights.earnings_summaries[1].symbol = "005930.KS"

\* C24: for all allocation inputs, those outside [0, 100] included, the
\* allocation insight's current value is today's input, its previous value is
\* yesterday's input, and its delta is their difference rounded to two
\* decimals: a multiple of a hundredth at most half a hundredth away from the
\* difference.  (22.0, 18.0) gives 4.0 and (20.0, 21.0) gives -1.0.
C24_AllocationDelta ==
  stateless.op = "analyze_market_data" =>
    /\ Len(stateless.insights.portfolio_allocation) = 1
    /\ LET a == stateless.insights.portfolio_allocation[1]
           d == stateless.today - stateless.yesterday
       IN  /\ a.current_percentage = stateless.today
           /\ a.previous_percentage = stateless.yesterday
           /\ a.change_points % 10 = 0
           /\ a.change_points - d <= 5
           /\ d - a.change_points <= 5
           /\ (stateless.today = Pct(22) /\ stateless.yesterday = Pct(18)
                 => a.change_points = Pct(4))
           /\ (stateless.today = Pct(20) /\ stateless.yesterday = Pct(21)
                 => a.change_points = 0 - Pct(1))

\* 120.0 today and -5.004 yesterday: the delta 125.004 is reported as 125.0
C24_Witness ==
  /\ stateless.op = "analyze_market_data"
  /\ stateless.today = Pct(120)
  /\ stateless.yesterday = 0 - 5004
  /\ stateless.insights.portfolio_allocation[1].current_percentage = Pct(120)
  /\ stateless.insights.portfolio_allocation[1].previous_percentage = 0 - 5004
  /\ stateless.insights.portfolio_allocation[1].change_points = Pct(125)

\* C25: with no stocks, no earnings records and an allocation of 0.0 today and
\* 0.0 yesterday, the analysis answers 404.
C25_EmptyInputNotFound ==
  ( /\ stateless.op = "analyze_market_data"
    /\ stateless.raw.stocks = <<>>
    /\ stateless.raw.earnings_surprises = <<>>
    /\ stateless.today = 0
    /\ stateless.yesterday = 0 )
  => stateless.status = NoInsightsStatus

\* C29: formatting never raises for a payload that conforms to the declared
\* record types, records with a null surprise_percent or null EPS included.
C29_FormatNeverFails ==
  stateless.op = "format_market_data_for_retrieval" => stateless.raised = "none"

====
